---------------------------- MODULE Spec2Model ----------------------------
(***************************************************************************)
(* Model of src/app.py: a Flask application that loads a pickled          *)
(* classifier and scaler at process start, and serves /, /predict         *)
(* (GET and POST), /history and /about over one relational table of       *)
(* Prediction rows.                                                        *)
(*                                                                         *)
(* Conventions of the model                                                *)
(*   - A probability is the rational proba / ProbScale, 0 <= proba <=     *)
(*     ProbScale.  The classifier and the scaler are opaque: what the     *)
(*     classifier returns for a request is an input of the request.       *)
(*   - st_depression (a float in the code) is held in tenths.             *)
(*   - A submitted form carries the nine raw values and `bad`, the name   *)
(*     of the field that is missing or not numeric ("none" when every     *)
(*     field parses).                                                      *)
(*   - An optional value (Python None or a value) is a sequence of        *)
(*     length 0 or 1.                                                      *)
(***************************************************************************)
EXTENDS Integers, Sequences, FiniteSets, TLC

VARIABLES
    files,      \* what lies on disk at model.sav / scaler.sav
    phase,      \* "start" before the loading block ran, "serving" after
    model,      \* module global `model`
    scaler,     \* module global `scaler`
    table,      \* rows of the Prediction table, in insertion order
    req,        \* the inputs of the last request handled
    resp,       \* what the last request rendered
    nRendered   \* number of POSTs to /predict that rendered a result

vars == <<files, phase, model, scaler, table, req, resp, nRendered>>

---------------------------------------------------------------------------
(* Bounds of the model *)

MaxRecords == 2      \* rows the table may hold
MaxTime == 1         \* timestamps are drawn from 0..MaxTime
MaxCode == 4         \* categorical codes are drawn from -1..MaxCode
ProbScale == 1000    \* probabilities are the multiples of 1/ProbScale

(* Constants of the program *)

Percent == 100       \* prediction_proba * 100
NumFeatures == 13    \* shape[1] != 13
VeryHighAbove == 75  \* risk_score > 75
HighAbove == 50      \* risk_score > 50
ModerateAbove == 25  \* risk_score > 25

None == "None"
NoValue == <<>>
Some(x) == <<x>>

---------------------------------------------------------------------------
(* Startup: the loading block *)

FileStates == {"ok", "missing", "corrupt"}

\* The two except clauses: both reset both globals.
ExceptResetKeepsModel(m, s) == [model |-> m, scaler |-> None]

ExceptReset(m, s) == [model |-> None, scaler |-> None]

\* model = None; scaler = None; try: load model; load scaler; except: reset.
LoadArtifacts(f) ==
    LET m0 == None
        s0 == None
    IN  IF f.model # "ok" THEN ExceptReset(m0, s0)
        ELSE LET m1 == "classifier"
             IN  IF f.scaler # "ok" THEN ExceptReset(m1, s0)
                 ELSE [model |-> m1, scaler |-> "scaler"]

---------------------------------------------------------------------------
(* Form parsing *)

ParseAlwaysOk(form) == TRUE

\* int(request.form[...]) / float(request.form[...]) raise on a missing or
\* non-numeric field.
ParseOk(form) == form.bad = "none"

\* request.form.get('patient_name') or 'Anonymous'
PatientName(form) ==
    IF form.patient_name = "" THEN "Anonymous" ELSE form.patient_name

---------------------------------------------------------------------------
(* One-hot encoding *)

Flag(b) == IF b THEN 1 ELSE 0

\* <<f_cp_atypical, f_cp_non_anginal, f_cp_typical>>
CpFlags(cp) == <<Flag(cp = 1), Flag(cp = 2), Flag(cp = 0)>>

\* <<f_slope_flat, f_slope_upsloping>>
SlopeFlags(slope) == <<Flag(slope = 1), Flag(slope = 0)>>

ThalFlagsAtLeast(thal) == <<Flag(thal = 2), Flag(thal >= 3)>>

\* <<f_thal_normal, f_thal_reversible>>
ThalFlags(thal) == <<Flag(thal = 2), Flag(thal = 3)>>

FeaturesDropExang(form) ==
    <<form.age, form.max_heart_rate_achieved, form.st_depression,
      form.num_major_vessels>>
    \o CpFlags(form.chest_pain_type)
    \o SlopeFlags(form.st_slope)
    \o ThalFlags(form.thalassemia)
    \o <<Flag(form.sex = 1)>>

\* features = [f_age, ..., f_exang_yes]
Features(form) ==
    <<form.age, form.max_heart_rate_achieved, form.st_depression,
      form.num_major_vessels>>
    \o CpFlags(form.chest_pain_type)
    \o SlopeFlags(form.st_slope)
    \o ThalFlags(form.thalassemia)
    \o <<Flag(form.sex = 1), Flag(form.exercise_induced_angina = 1)>>

---------------------------------------------------------------------------
(* Risk score and risk level *)

RoundTruncate(num, den) == num \div den

\* Python's round() on a non-negative num/den: to the nearest integer, a tie
\* to the even one.
RoundHalfEven(num, den) ==
    LET q == num \div den
        r == num % den
    IN  IF 2 * r < den THEN q
        ELSE IF 2 * r > den THEN q + 1
        ELSE IF q % 2 = 0 THEN q ELSE q + 1

\* risk_score = int(round(prediction_proba * 100))
RiskScore(proba) == RoundHalfEven(proba * Percent, ProbScale)

RiskBucketInclusive(score) ==
    IF score >= VeryHighAbove
    THEN [level |-> "Very High Risk", class |-> "level-very-high"]
    ELSE IF score >= HighAbove
    THEN [level |-> "High Risk", class |-> "level-high"]
    ELSE IF score >= ModerateAbove
    THEN [level |-> "Moderate Risk", class |-> "level-moderate"]
    ELSE [level |-> "Low Risk", class |-> "level-low"]

\* the if / elif chain on risk_score
RiskBucket(score) ==
    IF score > VeryHighAbove
    THEN [level |-> "Very High Risk", class |-> "level-very-high"]
    ELSE IF score > HighAbove
    THEN [level |-> "High Risk", class |-> "level-high"]
    ELSE IF score > ModerateAbove
    THEN [level |-> "Moderate Risk", class |-> "level-moderate"]
    ELSE [level |-> "Low Risk", class |-> "level-low"]

---------------------------------------------------------------------------
(* The Prediction table *)

NewPredictionLevelOffByOne(id, ts, name, form, score, level) ==
    [id |-> id, patient_name |-> name, timestamp |-> ts,
     age |-> form.age, sex |-> form.sex,
     chest_pain_type |-> form.chest_pain_type,
     max_heart_rate_achieved |-> form.max_heart_rate_achieved,
     exercise_induced_angina |-> form.exercise_induced_angina,
     st_depression |-> form.st_depression,
     st_slope |-> form.st_slope,
     num_major_vessels |-> form.num_major_vessels,
     thalassemia |-> form.thalassemia,
     risk_score |-> score,
     risk_level |-> RiskBucket(score + 1).level]

\* Prediction(patient_name=..., ..., risk_level=risk_level); id and timestamp
\* are the column defaults.
NewPrediction(id, ts, name, form, score, level) ==
    [id |-> id, patient_name |-> name, timestamp |-> ts,
     age |-> form.age, sex |-> form.sex,
     chest_pain_type |-> form.chest_pain_type,
     max_heart_rate_achieved |-> form.max_heart_rate_achieved,
     exercise_induced_angina |-> form.exercise_induced_angina,
     st_depression |-> form.st_depression,
     st_slope |-> form.st_slope,
     num_major_vessels |-> form.num_major_vessels,
     thalassemia |-> form.thalassemia,
     risk_score |-> score,
     risk_level |-> level]

CommitNothing(t, row) == t

\* db.session.add(new_prediction); db.session.commit()
Commit(t, row) == Append(t, row)

SortedAsc(s) ==
    \A i, j \in 1..Len(s) : i < j => s[i].timestamp <= s[j].timestamp

SortedDesc(s) ==
    \A i, j \in 1..Len(s) : i < j => s[i].timestamp >= s[j].timestamp

Reorderings(t) ==
    IF t = <<>> THEN {<<>>}
    ELSE {[i \in 1..Len(t) |-> t[pi[i]]] : pi \in Permutations(1..Len(t))}

QueryOrderedAscending(t) == {s \in Reorderings(t) : SortedAsc(s)}

\* Prediction.query.order_by(Prediction.timestamp.desc()).all(): every row,
\* most recent first; the order among equal timestamps is the database's.
QueryOrdered(t) == {s \in Reorderings(t) : SortedDesc(s)}

---------------------------------------------------------------------------
(* Pages *)

Page(route, method, template, result, flash, predictions, steps, features) ==
    [route |-> route, method |-> method, template |-> template,
     result |-> result, flash |-> flash, predictions |-> predictions,
     steps |-> steps, features |-> features]

NoPage == Page("none", "none", "none", NoValue, "none", <<>>, <<>>, <<>>)

CpStr(cp) ==
    CASE cp = 0 -> "Typical Angina"
      [] cp = 1 -> "Atypical Angina"
      [] cp = 2 -> "Non-anginal Pain"
      [] cp = 3 -> "Asymptomatic"
      [] OTHER -> "N/A"

SlopeStr(s) ==
    CASE s = 0 -> "Upsloping"
      [] s = 1 -> "Flat"
      [] s = 2 -> "Downsloping"
      [] OTHER -> "N/A"

ThalStr(t) ==
    CASE t = 1 -> "Fixed Defect"
      [] t = 2 -> "Normal"
      [] t = 3 -> "Reversible Defect"
      [] OTHER -> "N/A"

\* the result dictionary handed to predict.html
ResultDict(name, form, score, bucket) ==
    [name |-> name, score |-> score, level |-> bucket.level,
     class |-> bucket.class, age |-> form.age,
     sex_str |-> IF form.sex = 1 THEN "Male" ELSE "Female",
     max_heart_rate_achieved |-> form.max_heart_rate_achieved,
     st_depression |-> form.st_depression,
     num_major_vessels |-> form.num_major_vessels,
     exercise_induced_angina_str |->
         IF form.exercise_induced_angina = 1 THEN "Yes" ELSE "No",
     chest_pain_type_str |-> CpStr(form.chest_pain_type),
     st_slope_str |-> SlopeStr(form.st_slope),
     thalassemia_str |-> ThalStr(form.thalassemia)]

---------------------------------------------------------------------------
(* The /predict handler *)

NotLoadedNever(m, s) == FALSE

\* if not model or not scaler
NotLoaded(m, s) == m = None \/ s = None

\* except Exception as e: flash(...); render predict.html with result=None.
\* Nothing was committed, so the table is the one the request found.
ExceptExit(t, steps, features) ==
    [table |-> t,
     page |-> Page("predict", "POST", "predict.html", NoValue, "error",
                   <<>>, steps, features)]

\* The POST branch of predict().  `proba` is what predict_proba returns for
\* this request, `ts` what datetime.utcnow returns at the insert, and `fault`
\* the call that raises for reasons outside the handler ("scale": the
\* scaler, "infer": the classifier, "commit": the database), if any.
PredictPostOutcome(m, s, t, form, proba, fault, ts) ==
    IF NotLoaded(m, s)
    THEN [table |-> t,
          page |-> Page("predict", "POST", "predict.html", NoValue,
                        "not_loaded", <<>>, <<>>, <<>>)]
    ELSE IF ~ParseOk(form) THEN ExceptExit(t, <<"parse">>, <<>>)
    ELSE
    LET name == PatientName(form)
        features == Features(form)
    IN  IF Len(features) # NumFeatures
        THEN [table |-> t,
              page |-> Page("predict", "POST", "predict.html", NoValue,
                            "feature_error", <<>>, <<"parse", "derive">>,
                            features)]
        ELSE IF s = None \/ fault = "scale"
        THEN ExceptExit(t, <<"parse", "derive", "scale">>, features)
        ELSE IF m = None \/ fault = "infer"
        THEN ExceptExit(t, <<"parse", "derive", "scale", "classify">>,
                        features)
        ELSE
        LET score == RiskScore(proba)
            bucket == RiskBucket(score)
            row == NewPrediction(Len(t) + 1, ts, name, form, score,
                                 bucket.level)
        IN  IF fault = "commit"
            THEN ExceptExit(t, <<"parse", "derive", "scale", "classify",
                                 "store">>, features)
            ELSE [table |-> Commit(t, row),
                  page |-> Page("predict", "POST", "predict.html",
                                Some(ResultDict(name, form, score, bucket)),
                                "none", <<>>,
                                <<"parse", "derive", "scale", "classify",
                                  "store", "render">>,
                                features)]

---------------------------------------------------------------------------
(* Requests *)

MakeForm(name, age, sex, cp, thalach, exang, oldpeak, slope, ca, thal, bad) ==
    [patient_name |-> name, age |-> age, sex |-> sex,
     chest_pain_type |-> cp, max_heart_rate_achieved |-> thalach,
     exercise_induced_angina |-> exang, st_depression |-> oldpeak,
     st_slope |-> slope, num_major_vessels |-> ca, thalassemia |-> thal,
     bad |-> bad]

NoForm == MakeForm("", 0, 0, 0, 0, 0, 0, 0, 0, 0, "none")

Request(form, proba, fault, ts) ==
    [form |-> form, proba |-> proba, fault |-> fault, ts |-> ts]

NoRequest == Request(NoForm, 0, "none", 0)

PostFaults == {"none", "scale", "infer", "commit"}
QueryFaults == {"none", "db"}
Times == 0..MaxTime
Codes == -1..MaxCode
AllProbs == 0..ProbScale

\* Forms and probabilities submitted to the running server.
TypicalForm == MakeForm("Ann", 54, 1, 0, 150, 1, 23, 1, 2, 3, "none")
OddForm == MakeForm("", 61, 0, MaxCode, 120, 0, 0, -1, 0, 0, "none")

ServerForms ==
    {TypicalForm, OddForm, [TypicalForm EXCEPT !.bad = "st_depression"]}

ServerProbs == {ProbScale \div 4, ProbScale}

\* Every combination of raw inputs, the categorical codes ranging over
\* Codes (in and out of the documented ranges).
WideForms ==
    {MakeForm("Ann", age, sex, cp, 150, exang, oldpeak, slope, ca, thal,
              "none") :
        age \in {29, 77}, sex \in 0..2, cp \in Codes, exang \in 0..2,
        oldpeak \in {23}, slope \in Codes, ca \in {0, 3}, thal \in Codes}

---------------------------------------------------------------------------
(* Actions *)

Init ==
    /\ files \in [model : FileStates, scaler : FileStates]
    /\ phase = "start"
    /\ model = None
    /\ scaler = None
    /\ table = <<>>
    /\ req = NoRequest
    /\ resp = NoPage
    /\ nRendered = 0

\* The module-level loading block, run once when the process starts.
Startup ==
    /\ phase = "start"
    /\ LET loaded == LoadArtifacts(files)
       IN  /\ model' = loaded.model
           /\ scaler' = loaded.scaler
    /\ phase' = "serving"
    /\ UNCHANGED <<files, table, req, resp, nRendered>>

Static(route, template) ==
    /\ phase = "serving"
    /\ req' = NoRequest
    /\ resp' = Page(route, "GET", template, NoValue, "none", <<>>, <<>>, <<>>)
    /\ UNCHANGED <<files, phase, model, scaler, table, nRendered>>

Index == Static("index", "index.html")

About == Static("about", "about.html")

PredictGet == Static("predict", "predict.html")

\* Whether the request gets as far as reading a probability off the
\* classifier, and as far as the insert (where the column default reads the
\* clock).
ReadsProba(form, fault) ==
    /\ ~NotLoaded(model, scaler)
    /\ ParseOk(form)
    /\ fault \in {"none", "commit"}

ReadsClock(form, fault) == ReadsProba(form, fault) /\ fault = "none"

\* A POST to /predict.  Of the calls the handler makes at most one raises:
\* a form that does not parse ends the request before any other call.
PredictPost(form, fault, probs) ==
    /\ phase = "serving"
    /\ ParseOk(form) \/ fault = "none"
    /\ \E proba \in IF ReadsProba(form, fault) THEN probs ELSE {0},
          ts \in IF ReadsClock(form, fault) THEN Times ELSE {0} :
          LET out == PredictPostOutcome(model, scaler, table, form, proba,
                                        fault, ts)
          IN  /\ Len(out.table) <= MaxRecords
              /\ table' = out.table
              /\ resp' = out.page
              /\ nRendered' = nRendered + Flag(out.page.result # NoValue)
              /\ req' = Request(form, proba, fault, ts)
    /\ UNCHANGED <<files, phase, model, scaler>>

History(fault) ==
    /\ phase = "serving"
    /\ req' = Request(NoForm, 0, fault, 0)
    /\ IF fault = "db"
       THEN resp' = Page("history", "GET", "history.html", NoValue,
                         "history_error", <<>>, <<>>, <<>>)
       ELSE \E rows \in QueryOrdered(table) :
                resp' = Page("history", "GET", "history.html", NoValue,
                             "none", rows, <<>>, <<>>)
    /\ UNCHANGED <<files, phase, model, scaler, table, nRendered>>

Next ==
    \/ Startup
    \/ Index
    \/ About
    \/ PredictGet
    \/ \E form \in ServerForms, fault \in PostFaults :
           PredictPost(form, fault, ServerProbs)
    \/ \E fault \in QueryFaults : History(fault)

Spec == Init /\ [][Next]_vars

\* One POST of a fixed form to a server whose artifacts loaded, over every
\* probability the classifier may return.
InitLoaded ==
    /\ Init
    /\ files = [model |-> "ok", scaler |-> "ok"]

ScorePost ==
    /\ table = <<>>
    /\ PredictPost(TypicalForm, "none", AllProbs)

NextScore == Startup \/ ScorePost

SpecScore == InitLoaded /\ [][NextScore]_vars

\* One POST to a server whose artifacts loaded, over every combination of
\* raw inputs.
EncodePost ==
    /\ table = <<>>
    /\ \E form \in WideForms : PredictPost(form, "none", ServerProbs)

NextEncode == Startup \/ EncodePost

SpecEncode == InitLoaded /\ [][NextEncode]_vars

---------------------------------------------------------------------------
(* Properties *)

\* What the statements below read off the last request.
IsPost(page) == page.route = "predict" /\ page.method = "POST"
Rendered(page) == IsPost(page) /\ page.result # NoValue
LastRow(t) == t[Len(t)]

\* The bucket the thresholds 25 / 50 / 75 assign to a score.
ThresholdLevel(score) ==
    CASE score > 75 -> "Very High Risk"
      [] score > 50 /\ score <= 75 -> "High Risk"
      [] score > 25 /\ score <= 50 -> "Moderate Risk"
      [] score <= 25 -> "Low Risk"

LevelRank(level) ==
    CASE level = "Low Risk" -> 0
      [] level = "Moderate Risk" -> 1
      [] level = "High Risk" -> 2
      [] level = "Very High Risk" -> 3

\* C1: for every probability p in [0,1] the classifier returns, the risk
\* score of the rendered result (and of the stored row) is an integer in
\* 0..100 that is p * 100 rounded to the nearest integer: it differs from
\* p * 100 by at most one half.
C1_RiskScoreIsRoundedPercent ==
    Rendered(resp) =>
        LET score == resp.result[1].score
        IN  /\ score \in 0..100
            /\ 2 * (ProbScale * score - 100 * req.proba)
                   \in (0 - ProbScale)..ProbScale
            /\ LastRow(table).risk_score = score

\* A probability whose percentage is not an integer was rounded up, and one
\* was rounded down.
C1_Witness ==
    /\ Rendered(resp)
    /\ req.proba * 100 = 99 * ProbScale + (9 * ProbScale) \div 10
    /\ resp.result[1].score = 100

\* C2: every risk score in 0..100 gets exactly one of the four buckets, by
\* the thresholds 25 / 50 / 75 (above 75 Very High, above 50 up to 75 High,
\* above 25 up to 50 Moderate, up to 25 Low), and no lower score gets a
\* higher bucket.
C2_BucketByThresholds ==
    Rendered(resp) =>
        LET score == resp.result[1].score
            level == resp.result[1].level
        IN  /\ level \in {"Low Risk", "Moderate Risk", "High Risk",
                          "Very High Risk"}
            /\ level = ThresholdLevel(score)
            /\ \A lower \in 0..score :
                   LevelRank(RiskBucket(lower).level) <= LevelRank(level)

\* A score on a threshold stays in the lower bucket.
C2_Witness ==
    /\ Rendered(resp)
    /\ resp.result[1].score = 75
    /\ resp.result[1].level = "High Risk"

\* C3: for every combination of the nine raw inputs the feature vector has
\* exactly 13 elements, in the order age, max heart rate, ST depression,
\* major vessels, CP atypical (code 1), CP non-anginal (2), CP typical (0),
\* slope flat (1), slope upsloping (0), thal normal (2), thal reversible (3),
\* sex male (1), exang yes (1); the 'Expected 13 features' branch is never
\* taken.
C3_FeatureVector ==
    IsPost(resp) =>
        LET f == resp.features
            in == req.form
        IN  /\ Len(f) = 13
            /\ f[1] = in.age
            /\ f[2] = in.max_heart_rate_achieved
            /\ f[3] = in.st_depression
            /\ f[4] = in.num_major_vessels
            /\ f[5] = 1 <=> in.chest_pain_type = 1
            /\ f[6] = 1 <=> in.chest_pain_type = 2
            /\ f[7] = 1 <=> in.chest_pain_type = 0
            /\ f[8] = 1 <=> in.st_slope = 1
            /\ f[9] = 1 <=> in.st_slope = 0
            /\ f[10] = 1 <=> in.thalassemia = 2
            /\ f[11] = 1 <=> in.thalassemia = 3
            /\ f[12] = 1 <=> in.sex = 1
            /\ f[13] = 1 <=> in.exercise_induced_angina = 1
            /\ \A i \in 5..13 : f[i] \in {0, 1}
            /\ resp.flash # "feature_error"

C3_Witness ==
    /\ Rendered(resp)
    /\ req.form.chest_pain_type = 1
    /\ req.form.st_slope = 0
    /\ req.form.thalassemia = 3
    /\ resp.features = <<77, 150, 23, 3, 1, 0, 0, 0, 1, 0, 1, 1, 1>>

\* C4: a POST that renders a result ran derive, scale, classify, store,
\* render in that order, and committed exactly one record, holding that
\* request's inputs and risk score, before rendering; after any sequence of
\* requests the table holds as many records as POSTs rendered a result.
C4_OneRecordPerRenderedResult ==
    [][/\ Len(table') = nRendered'
       /\ Rendered(resp') =>
            /\ SubSeq(resp'.steps, 2, Len(resp'.steps))
                   = <<"derive", "scale", "classify", "store", "render">>
            /\ Len(table') = Len(table) + 1
            /\ SubSeq(table', 1, Len(table)) = table
            /\ LET row == LastRow(table')
                   in == req'.form
               IN  /\ row.age = in.age
                   /\ row.sex = in.sex
                   /\ row.chest_pain_type = in.chest_pain_type
                   /\ row.max_heart_rate_achieved = in.max_heart_rate_achieved
                   /\ row.exercise_induced_angina = in.exercise_induced_angina
                   /\ row.st_depression = in.st_depression
                   /\ row.st_slope = in.st_slope
                   /\ row.num_major_vessels = in.num_major_vessels
                   /\ row.thalassemia = in.thalassemia
                   /\ row.risk_score = resp'.result[1].score
                   /\ row.risk_score = RiskScore(req'.proba)]_vars

\* Two POSTs of different forms each rendered a result.
C4_Witness ==
    /\ Rendered(resp)
    /\ nRendered = 2
    /\ Len(table) = 2
    /\ table[1].age # table[2].age

\* C5: when form parsing, scaling or inference fails during a POST, the
\* request ends with result None and an error message, adds no record, and
\* leaves the table and the loaded artifacts as it found them, so later
\* requests are handled as if it had not happened.
C5_FailedPostLeavesNoTrace ==
    [][(/\ IsPost(resp')
        /\ model # None
        /\ scaler # None
        /\ \/ req'.form.bad # "none"
           \/ req'.fault \in {"scale", "infer"})
       => /\ resp'.result = NoValue
          /\ resp'.flash = "error"
          /\ table' = table
          /\ nRendered' = nRendered
          /\ model' = model
          /\ scaler' = scaler]_vars

\* A form with a non-numeric field was posted to a table holding a record.
C5_Witness ==
    /\ IsPost(resp)
    /\ req.form.bad = "st_depression"
    /\ resp.flash = "error"
    /\ Len(table) = 1

\* C6: the model and the scaler are assigned only by the loading block at
\* process start; if the model was not loaded then, every later POST to
\* /predict renders result None with the 'not loaded' message, parses no
\* input and stores no record.
C6_NotLoadedIsPermanent ==
    [][/\ phase = "serving" => (model' = model /\ scaler' = scaler)
       /\ (phase = "serving" /\ model = None /\ IsPost(resp'))
          => /\ resp'.result = NoValue
             /\ resp'.flash = "not_loaded"
             /\ resp'.steps = <<>>
             /\ table' = table]_vars

C6_Witness ==
    /\ phase = "serving"
    /\ files.model = "missing"
    /\ model = None
    /\ IsPost(resp)
    /\ resp.flash = "not_loaded"

\* C7: /history returns every stored prediction exactly once, most recent
\* timestamp first, and leaves the table unchanged; when the query fails it
\* renders an empty list.
C7_HistoryListsAllDescending ==
    [][resp'.route = "history"
       => /\ table' = table
          /\ IF req'.fault = "db"
             THEN resp'.predictions = <<>>
             ELSE LET shown == resp'.predictions
                  IN  /\ Len(shown) = Len(table)
                      /\ \A i \in 1..Len(table) :
                           Cardinality({j \in 1..Len(shown) :
                                           shown[j] = table[i]}) = 1
                      /\ \A i \in 1..Len(shown) : \A j \in 1..Len(shown) :
                           i < j => shown[i].timestamp >= shown[j].timestamp]_vars

\* The later of two records is listed first.
C7_Witness ==
    /\ resp.route = "history"
    /\ Len(resp.predictions) = 2
    /\ resp.predictions[1].id = 2
    /\ resp.predictions[1].timestamp > resp.predictions[2].timestamp

\* C8: after the loading block the model and the scaler are both loaded or
\* both None; a failure to load the scaler resets an already loaded model,
\* so no request gets past the guard with only one of the two.
C8_BothOrNeither ==
    phase = "serving" =>
        /\ (model = None) <=> (scaler = None)
        /\ (files.model # "ok" \/ files.scaler # "ok") => model = None
        /\ (IsPost(resp) /\ resp.steps # <<>>)
               => (model # None /\ scaler # None)

C8_Witness ==
    /\ phase = "serving"
    /\ files.model = "ok"
    /\ files.scaler = "missing"
    /\ model = None
    /\ scaler = None

\* C9: every stored record has a risk_score in 0..100 and the risk_level
\* the thresholds 25 / 50 / 75 assign to that risk_score, and the table only
\* grows: no request changes or deletes a stored record.
C9_RowsConsistentAppendOnly ==
    [][/\ \A i \in 1..Len(table') :
            /\ table'[i].risk_score \in 0..100
            /\ table'[i].risk_level = ThresholdLevel(table'[i].risk_score)
       /\ Len(table') >= Len(table)
       /\ SubSeq(table', 1, Len(table)) = table]_vars

C9_Witness ==
    /\ Len(table) = 2
    /\ table[1].risk_score = 25
    /\ table[1].risk_level = "Low Risk"
    /\ table[2].risk_level = "Very High Risk"
    /\ resp.route = "history"

\* C10: for every integer code of chest_pain_type, st_slope and thalassemia,
\* in or out of the documented ranges 0-3, 0-2, 1-3, at most one flag is set
\* in each one-hot group; an out-of-range code is not rejected, gives the
\* all-zero flags and the feature vector of the baseline category (chest
\* pain 3, slope 2, thalassemia 1), and is stored as submitted.
C10_OutOfRangeCodes ==
    IsPost(resp) =>
        LET f == resp.features
            in == req.form
            base == [in EXCEPT
                       !.chest_pain_type = IF @ \in 0..3 THEN @ ELSE 3,
                       !.st_slope = IF @ \in 0..2 THEN @ ELSE 2,
                       !.thalassemia = IF @ \in 1..3 THEN @ ELSE 1]
        IN  /\ Len(f) = 13
            /\ f[5] + f[6] + f[7] <= 1
            /\ f[8] + f[9] <= 1
            /\ f[10] + f[11] <= 1
            /\ in.chest_pain_type \notin 0..3 => f[5] + f[6] + f[7] = 0
            /\ in.st_slope \notin 0..2 => f[8] + f[9] = 0
            /\ in.thalassemia \notin 1..3 => f[10] + f[11] = 0
            /\ f = Features(base)
            /\ Rendered(resp)
            /\ LastRow(table).chest_pain_type = in.chest_pain_type
            /\ LastRow(table).st_slope = in.st_slope
            /\ LastRow(table).thalassemia = in.thalassemia

C10_Witness ==
    /\ Rendered(resp)
    /\ req.form.chest_pain_type = MaxCode
    /\ req.form.st_slope = -1
    /\ req.form.thalassemia = 0
    /\ LastRow(table).chest_pain_type = MaxCode
    /\ resp.features = <<29, 150, 23, 0, 0, 0, 0, 0, 0, 0, 0, 0, 0>>

=============================================================================
